---- MODULE Spec2Model ----
(***************************************************************************)
(* Model of src/index.py: the Bedrock flow client (invoke_flow and         *)
(* _process_flow_response), the Flask handlers POST /invoke-flow and       *)
(* GET /health, and BedrockFlowIntegration.test_flow.                      *)
(*                                                                         *)
(* The external flow service is the environment: for every outbound call   *)
(* it either raises, answers without a responseStream, or answers with a   *)
(* responseStream.  A stream is a finite sequence of items; an item is an  *)
(* event (a dict) or a fault (handling the item raises: the iterator       *)
(* raises, or the item is not a container so that `in` raises).  Python    *)
(* truth testing of the stream (line 84) depends on the object: a sized    *)
(* container is false when empty, an iterator object without __len__ (a    *)
(* generator, an event stream object) is always true.                      *)
(***************************************************************************)
EXTENDS Integers, Sequences, FiniteSets, TLC

\* ---------------------------------------------------------------- bounds
MaxLen == 3        \* longest response stream
MaxCalls == 2      \* outbound calls made in one behaviour

\* ------------------------------------------------------- program constants
flow_id == "YOUR_FLOW_ID"
flow_alias_id == "YOUR_FLOW_ALIAS_ID"
NodeName == "FlowInputNode"
NodeOutputName == "document"
NoResponseMsg == "No response from flow"
NoInputMsg == "No input provided"

\* ------------------------------------------------------------ environment
\* the instants datetime.now() reads, in order
Instants == <<"2025-01-01T00:00:00", "2025-01-01T00:00:01">>

Payloads == {"doc-a", "doc-b"}

\* events of a response stream: dicts, given by their key and the value
\* under 'flowOutputEvent' ("" when the key is not there)
OutputEvent(p) == [fault |-> FALSE, keys |-> {"flowOutputEvent"}, output |-> p, msg |-> ""]
OtherEvent == [fault |-> FALSE, keys |-> {"flowCompletionEvent"}, output |-> "", msg |-> ""]
FaultItem == [fault |-> TRUE, keys |-> {}, output |-> "", msg |-> "stream error"]

Items == {OutputEvent(p) : p \in Payloads} \cup {OtherEvent, FaultItem}

SeqsUpTo(S, n) == UNION {[1..k -> S] : k \in 0..n}

\* a sized container never raises on iteration by itself; its faults are
\* malformed events, which are items too, so both kinds range over Items
Streams == [sized : BOOLEAN, items : SeqsUpTo(Items, MaxLen)]

NoStream == [sized |-> TRUE, items |-> << >>]

\* what bedrock_agent.invoke_flow does on one call
ServiceBehaviours ==
    {[raises |-> TRUE, error |-> "AccessDeniedException", hasStream |-> FALSE, stream |-> NoStream]}
    \cup {[raises |-> FALSE, error |-> "", hasStream |-> FALSE, stream |-> NoStream]}
    \cup {[raises |-> FALSE, error |-> "", hasStream |-> TRUE, stream |-> s] : s \in Streams}

\* JSON values of the `input` field
JStr(s) == [t |-> "string", s |-> s]
JNull == [t |-> "null", s |-> ""]
InputValues == {JStr(""), JStr("hello"), JNull}

\* request bodies of POST /invoke-flow as request.get_json() sees them
Bodies ==
    {[json |-> j, hasInput |-> FALSE, input |-> JNull] : j \in {"none", "null", "array", "object"}}
    \cup {[json |-> "object", hasInput |-> TRUE, input |-> v] : v \in InputValues}

\* test_flow takes a str
TestInputs == {"hello"}

\* ----------------------------------------------------------------- helpers
\* Python truth value of a JSON value (line 204: `not user_input`)
Truthy(v) == v.t = "string" /\ v.s # ""

\* a truth test that takes every stream object for true
StreamTruthy_Always(stream) == TRUE

\* Python truth value of the stream object (line 84: `if response_body:`)
StreamTruthy(stream) == IF stream.sized THEN Len(stream.items) > 0 ELSE TRUE

\* datetime.isoformat(): the string form of an instant
isoformat(t) == Instants[t]

\* a loop that collects every event, tagged or not
RECURSIVE Collect_AppendAll(_, _, _)
Collect_AppendAll(items, i, result) ==
    IF i > Len(items)
    THEN [raised |-> FALSE, result |-> result, exc |-> ""]
    ELSE IF items[i].fault
         THEN [raised |-> TRUE, result |-> result, exc |-> items[i].msg]
         ELSE Collect_AppendAll(items, i + 1, Append(result, items[i].output))

\* a loop that inserts at the front instead of appending
RECURSIVE Collect_Prepend(_, _, _)
Collect_Prepend(items, i, result) ==
    IF i > Len(items)
    THEN [raised |-> FALSE, result |-> result, exc |-> ""]
    ELSE IF items[i].fault
         THEN [raised |-> TRUE, result |-> result, exc |-> items[i].msg]
         ELSE IF "flowOutputEvent" \in items[i].keys
              THEN Collect_Prepend(items, i + 1, <<items[i].output>> \o result)
              ELSE Collect_Prepend(items, i + 1, result)

\* lines 86-90: the loop over the stream, from item i with `result` so far;
\* yields the collected list, or the exception that ended the loop
RECURSIVE Collect(_, _, _)
Collect(items, i, result) ==
    IF i > Len(items)
    THEN [raised |-> FALSE, result |-> result, exc |-> ""]
    ELSE IF items[i].fault
         THEN [raised |-> TRUE, result |-> result, exc |-> items[i].msg]
         ELSE IF "flowOutputEvent" \in items[i].keys
              THEN Collect(items, i + 1, Append(result, items[i].output))
              ELSE Collect(items, i + 1, result)

\* a normalization whose "no response" envelope has no timestamp
process_flow_response_NoTimestamp(response, t) ==
    LET response_body == IF response.hasStream THEN response.stream ELSE NoStream
        present == response.hasStream /\ StreamTruthy(response_body)
        loop == Collect(response_body.items, 1, << >>)
    IN IF present
       THEN IF loop.raised
            THEN [success |-> FALSE, error |-> loop.exc, timestamp |-> isoformat(t)]
            ELSE [success |-> TRUE, data |-> loop.result, timestamp |-> isoformat(t)]
       ELSE [success |-> FALSE, error |-> NoResponseMsg]

\* a normalization that hands out the events collected before a stream error
process_flow_response_PartialData(response, t) ==
    LET response_body == IF response.hasStream THEN response.stream ELSE NoStream
        present == response.hasStream /\ StreamTruthy(response_body)
        loop == Collect(response_body.items, 1, << >>)
    IN IF present
       THEN IF loop.raised
            THEN [success |-> FALSE, error |-> loop.exc, data |-> loop.result,
                  timestamp |-> isoformat(t)]
            ELSE [success |-> TRUE, data |-> loop.result, timestamp |-> isoformat(t)]
       ELSE [success |-> FALSE, error |-> NoResponseMsg, timestamp |-> isoformat(t)]

\* lines 78-110
process_flow_response(response, t) ==
    LET response_body == IF response.hasStream THEN response.stream ELSE NoStream
        present == response.hasStream /\ StreamTruthy(response_body)
        loop == Collect(response_body.items, 1, << >>)
    IN IF present
       THEN IF loop.raised
            THEN [success |-> FALSE, error |-> loop.exc, timestamp |-> isoformat(t)]
            ELSE [success |-> TRUE, data |-> loop.result, timestamp |-> isoformat(t)]
       ELSE [success |-> FALSE, error |-> NoResponseMsg, timestamp |-> isoformat(t)]

\* a client that calls the service a second time when the first call raises
invoke_flow_Retry(input_data, service, t) ==
    LET request_body ==
            [flowIdentifier |-> flow_id,
             flowAliasIdentifier |-> flow_alias_id,
             inputs |-> <<[content |-> input_data,
                           nodeName |-> NodeName,
                           nodeOutputName |-> NodeOutputName]>>]
    IN IF service.raises
       THEN [called |-> TRUE, raised |-> TRUE, exc |-> service.error,
             request |-> request_body, calls |-> 2]
       ELSE [called |-> TRUE, raised |-> FALSE,
             result |-> process_flow_response(service, t),
             request |-> request_body, calls |-> 1]

\* lines 39-76: the outcome of one call of the client: the request sent, the
\* number of outbound calls made, and either the returned result or the
\* exception re-raised at line 76
invoke_flow(input_data, service, t) ==
    LET request_body ==
            [flowIdentifier |-> flow_id,
             flowAliasIdentifier |-> flow_alias_id,
             inputs |-> <<[content |-> input_data,
                           nodeName |-> NodeName,
                           nodeOutputName |-> NodeOutputName]>>]
    IN IF service.raises
       THEN [called |-> TRUE, raised |-> TRUE, exc |-> service.error,
             request |-> request_body, calls |-> 1]
       ELSE [called |-> TRUE, raised |-> FALSE,
             result |-> process_flow_response(service, t),
             request |-> request_body, calls |-> 1]

NotCalled == [called |-> FALSE, calls |-> 0]

\* line 201: request.get_json() raises on a missing or unparsable body
GetJsonRaises(body) == body.json = "none"
GetJsonMsg == "400 Bad Request"

\* line 202: data.get('input', '') raises when data is not a dict
GetRaises(body) == body.json \in {"null", "array"}
GetMsg(body) ==
    IF body.json = "null"
    THEN "'NoneType' object has no attribute 'get'"
    ELSE "'list' object has no attribute 'get'"

user_input(body) == IF body.hasInput THEN body.input ELSE JStr("")

\* lines 197-226: the handler of POST /invoke-flow; t1 is the clock at line
\* 213, t2 the clock when the client builds its envelope
invoke_flow_route(body, service, t1, t2) ==
    IF GetJsonRaises(body)
    THEN [status |-> 500, body |-> [success |-> FALSE, error |-> GetJsonMsg],
          client |-> NotCalled]
    ELSE IF GetRaises(body)
    THEN [status |-> 500, body |-> [success |-> FALSE, error |-> GetMsg(body)],
          client |-> NotCalled]
    ELSE IF ~Truthy(user_input(body))
    THEN [status |-> 400, body |-> [success |-> FALSE, error |-> NoInputMsg],
          client |-> NotCalled]
    ELSE LET flow_input == [query |-> user_input(body).s, timestamp |-> isoformat(t1)]
             out == invoke_flow(flow_input, service, t2)
         IN IF out.raised
            THEN [status |-> 500, body |-> [success |-> FALSE, error |-> out.exc],
                  client |-> out]
            ELSE [status |-> 200, body |-> out.result, client |-> out]

\* lines 252-270
test_flow(test_input, service, t1, t2) ==
    LET flow_input == [query |-> test_input, timestamp |-> isoformat(t1)]
        out == invoke_flow(flow_input, service, t2)
    IN IF out.raised
       THEN [result |-> [success |-> FALSE, error |-> out.exc], client |-> out]
       ELSE [result |-> out.result, client |-> out]

\* lines 228-234
health_check(t) == [status |-> 200, body |-> [status |-> "healthy", timestamp |-> isoformat(t)]]

\* ------------------------------------------------------------------- state
VARIABLES
    op,        \* the last operation and its input
    service,   \* what the external service did on the last operation's call
    client,    \* outcome of the client's invoke_flow inside the last operation
    response,  \* what the last operation returned: status and body
    calls,     \* outbound calls made to the external service so far
    now        \* the clock

vars == <<op, service, client, response, calls, now>>

NoBody == [json |-> "none", hasInput |-> FALSE, input |-> JNull]

Idle == [raises |-> FALSE, error |-> "", hasStream |-> FALSE, stream |-> NoStream]

Init ==
    /\ op = [name |-> "start", body |-> NoBody, text |-> ""]
    /\ service = Idle
    /\ client = NotCalled
    /\ response = [status |-> 0, body |-> [status |-> "none"]]
    /\ calls = 0
    /\ now = 1

\* the handler of POST /invoke-flow gets as far as line 217
ReachesClient(body) ==
    /\ ~GetJsonRaises(body)
    /\ ~GetRaises(body)
    /\ Truthy(user_input(body))

\* POST /invoke-flow with body b while the service behaves as sv
PostInvokeFlow ==
    \E b \in Bodies :
        /\ ReachesClient(b) => calls < MaxCalls
        /\ \E sv \in (IF ReachesClient(b) THEN ServiceBehaviours ELSE {Idle}) :
            LET r == invoke_flow_route(b, sv, now, now)
            IN /\ op' = [name |-> "invoke-flow", body |-> b, text |-> ""]
               /\ service' = sv
               /\ client' = r.client
               /\ response' = [status |-> r.status, body |-> r.body]
               /\ calls' = calls + r.client.calls
               /\ now' = now

\* BedrockFlowIntegration.test_flow(text)
TestFlow ==
    /\ calls < MaxCalls
    /\ \E text \in TestInputs, sv \in ServiceBehaviours :
        LET r == test_flow(text, sv, now, now)
        IN /\ op' = [name |-> "test_flow", body |-> NoBody, text |-> text]
           /\ service' = sv
           /\ client' = r.client
           /\ response' = [status |-> 0, body |-> r.result]
           /\ calls' = calls + r.client.calls
           /\ now' = now

\* GET /health
HealthCheck ==
    /\ op' = [name |-> "health", body |-> NoBody, text |-> ""]
    /\ service' = Idle
    /\ client' = NotCalled
    /\ response' = health_check(now)
    /\ UNCHANGED <<calls, now>>

\* time passes between requests
Tick ==
    /\ now < Len(Instants)
    /\ now' = now + 1
    /\ UNCHANGED <<op, service, client, response, calls>>

Next == PostInvokeFlow \/ TestFlow \/ HealthCheck \/ Tick

Spec == Init /\ [][Next]_vars

\* ------------------------------------------------------------- properties
Has(r, f) == f \in DOMAIN r

\* the envelope invariant of a result r
Envelope(r) ==
    /\ Has(r, "success") /\ r.success \in BOOLEAN
    /\ Has(r, "timestamp")
    /\ Has(r, "data") <=> r.success
    /\ Has(r, "error") <=> ~r.success

\* the envelope invariant but for the timestamp
EnvelopeBody(r) ==
    /\ Has(r, "success") /\ r.success \in BOOLEAN
    /\ Has(r, "data") <=> r.success
    /\ Has(r, "error") <=> ~r.success

\* the last operation called the client and the client returned a result
Returned == client.called /\ ~client.raised

\* the last operation is one that returns an envelope
EnvelopeOp == op.name \in {"invoke-flow", "test_flow"}

\* the external service answered the last call with a stream
Streamed == client.called /\ ~service.raises /\ service.hasStream

HasFault(items) == \E i \in 1..Len(items) : items[i].fault

FirstFault(items) ==
    CHOOSE i \in 1..Len(items) : items[i].fault /\ \A j \in 1..(i - 1) : ~items[j].fault

IsOutput(e) == ~e.fault /\ "flowOutputEvent" \in e.keys

\* the flow-output payloads of a stream, in arrival order
TaggedOutputs(items) ==
    LET tagged == SelectSeq(items, IsOutput)
    IN [i \in 1..Len(tagged) |-> tagged[i].output]

\* C1: when the outbound invoke raises, invoke_flow returns the failure
\* envelope {success: false, error, timestamp} and raises nothing.
C1_CallErrorNormalized ==
    (client.called /\ service.raises) =>
        /\ ~client.raised
        /\ Envelope(client.result)
        /\ ~client.result.success

\* C2: every result of invoke_flow, test_flow and POST /invoke-flow is a
\* full envelope: boolean success, exactly one of data and error, matching
\* success, and a timestamp.
C2_EnvelopeEverywhere ==
    EnvelopeOp =>
        /\ Envelope(response.body)
        /\ client.called => (~client.raised /\ Envelope(client.result))

\* C2 amended: every result has a boolean success and exactly one of data and
\* error, matching success; every result the client returns also has a
\* timestamp; the body of POST /invoke-flow and the result of test_flow have
\* a timestamp exactly when they are a result the client returned (not on
\* status 400 or 500, not when test_flow caught an exception).
C2_EnvelopeAmended ==
    EnvelopeOp =>
        /\ EnvelopeBody(response.body)
        /\ Returned => (Envelope(client.result) /\ response.body = client.result)
        /\ Has(response.body, "timestamp") <=> Returned

C2_Witness ==
    /\ op.name = "test_flow"
    /\ client.called /\ client.raised
    /\ response.body = [success |-> FALSE, error |-> "AccessDeniedException"]

\* C3: for a non-empty string input and any behaviour of the service, the
\* body of POST /invoke-flow has a boolean success and a timestamp.
C3_BodyHasTimestamp ==
    (op.name = "invoke-flow" /\ ReachesClient(op.body)) =>
        /\ Has(response.body, "success") /\ response.body.success \in BOOLEAN
        /\ Has(response.body, "timestamp")

\* the request leaves `input` out or empty; a body that is absent, null or
\* not an object leaves it out
InputOmittedOrEmpty(body) ==
    \/ body.json # "object"
    \/ ~body.hasInput
    \/ body.input = JNull
    \/ body.input = JStr("")

\* C4: a POST /invoke-flow without input, or with an empty one, gets status
\* 400 and the body {success: false, error: "No input provided"}.
C4_MissingInputIs400 ==
    (op.name = "invoke-flow" /\ InputOmittedOrEmpty(op.body)) =>
        /\ response.status = 400
        /\ response.body = [success |-> FALSE, error |-> "No input provided"]

\* C5: when the response carries no stream or an empty stream, invoke_flow
\* returns {success: false, error: "No response from flow", timestamp}
\* without data.
C5_AbsentOrEmptyFails ==
    (client.called /\ ~service.raises
        /\ (~service.hasStream \/ service.stream.items = << >>)) =>
        /\ ~client.raised
        /\ DOMAIN client.result = {"success", "error", "timestamp"}
        /\ ~client.result.success
        /\ client.result.error = "No response from flow"

\* C5 amended: when the response carries no stream, or a stream object that
\* tests false (an empty sized container), invoke_flow returns {success:
\* false, error: "No response from flow", timestamp} without data; an empty
\* stream object that tests true (an iterator without a length) gives
\* success: true with data [].
C5_AbsentOrFalsyFails ==
    (client.called /\ ~service.raises) =>
        /\ (~service.hasStream \/ (service.stream.sized /\ service.stream.items = << >>)) =>
              /\ ~client.raised
              /\ DOMAIN client.result = {"success", "error", "timestamp"}
              /\ ~client.result.success
              /\ client.result.error = "No response from flow"
        /\ (service.hasStream /\ ~service.stream.sized /\ service.stream.items = << >>) =>
              /\ ~client.raised
              /\ DOMAIN client.result = {"success", "data", "timestamp"}
              /\ client.result.success
              /\ client.result.data = << >>

C5_Witness ==
    /\ client.called /\ ~service.raises /\ ~service.hasStream
    /\ ~client.raised
    /\ client.result.error = "No response from flow"

\* C6: a stream that is present and ends normally without any flow-output
\* event, other events only or no events at all, gives success: true with
\* data [].
C6_NoOutputsSucceeds ==
    (Streamed /\ ~HasFault(service.stream.items)
        /\ TaggedOutputs(service.stream.items) = << >>) =>
        /\ ~client.raised
        /\ Has(client.result, "success") /\ client.result.success
        /\ Has(client.result, "data") /\ client.result.data = << >>

\* C6 amended: a stream that is present, tests true (it holds an event, or it
\* is an iterator object without a length) and ends normally without any
\* flow-output event gives success: true with data []; a present but empty
\* sized container is treated as no stream.
C6_TruthyNoOutputsSucceeds ==
    (Streamed /\ ~HasFault(service.stream.items)
        /\ TaggedOutputs(service.stream.items) = << >>
        /\ (~service.stream.sized \/ Len(service.stream.items) > 0)) =>
        /\ ~client.raised
        /\ DOMAIN client.result = {"success", "data", "timestamp"}
        /\ client.result.success
        /\ client.result.data = << >>

C6_Witness ==
    /\ Streamed
    /\ service.stream.sized
    /\ service.stream.items = <<OtherEvent, OtherEvent>>
    /\ ~client.raised
    /\ client.result.success
    /\ client.result.data = << >>

\* C7: for a stream that ends normally, the data of the success envelope is
\* exactly the flow-output payloads of the stream's tagged events, in arrival
\* order.
C7_DataIsTaggedSubsequence ==
    (Streamed /\ ~HasFault(service.stream.items) /\ Returned
        /\ Has(client.result, "data")) =>
        client.result.data = TaggedOutputs(service.stream.items)

C7_Witness ==
    /\ Streamed
    /\ service.stream.items = <<OutputEvent("doc-b"), OtherEvent, OutputEvent("doc-a")>>
    /\ Returned
    /\ client.result.success
    /\ client.result.data = <<"doc-b", "doc-a">>

\* C8: an error raised while the stream is consumed, after any number of
\* collected flow-output events, gives {success: false, error, timestamp}
\* without raising and without data.
C8_StreamErrorDropsData ==
    (Streamed /\ HasFault(service.stream.items)) =>
        /\ ~client.raised
        /\ DOMAIN client.result = {"success", "error", "timestamp"}
        /\ ~client.result.success
        /\ client.result.error = service.stream.items[FirstFault(service.stream.items)].msg

C8_Witness ==
    /\ Streamed
    /\ service.stream.items = <<OutputEvent("doc-a"), OutputEvent("doc-b"), FaultItem>>
    /\ ~client.raised
    /\ ~client.result.success
    /\ ~Has(client.result, "data")

\* the external service failed on the last call: it raised, sent no stream,
\* or its stream raised
ServiceFailed ==
    /\ client.called
    /\ \/ service.raises
       \/ ~service.hasStream
       \/ HasFault(service.stream.items)

\* C9: for a non-empty input the status is 200 whenever the client returns an
\* envelope, and the body is that envelope; every failure of the external
\* service (no stream, transport error, stream error) gives 200, never 500.
C9_ServiceFailureIs200 ==
    (op.name = "invoke-flow" /\ ReachesClient(op.body)) =>
        /\ Returned => (response.status = 200 /\ response.body = client.result)
        /\ ServiceFailed => response.status = 200

\* C10: every POST /invoke-flow with a non-empty input and every test_flow
\* makes exactly one outbound call, whether it succeeds or fails; a POST
\* answered with 400 makes none.  (A step that leaves the clock alone is an
\* operation, and op' names it.)
C10_OneCallPerRequest ==
    [][now' = now =>
        /\ (op'.name = "invoke-flow" /\ ReachesClient(op'.body)) => calls' = calls + 1
        /\ op'.name = "test_flow" => calls' = calls + 1
        /\ (op'.name = "invoke-flow" /\ response'.status = 400) => calls' = calls]_vars

C10_Witness ==
    /\ calls = 2
    /\ op.name = "invoke-flow"
    /\ client.called /\ client.raised
    /\ response.status = 500

====
